---- MODULE Spec2Model ----
(***************************************************************************)
(* The Verdragenbank crawler (src/crawler.py): the paginated SRU client    *)
(* get_records, the record extractor parse_record, the name scrubber       *)
(* scrub_text and the orchestrator main with its shard files and its       *)
(* .last_update checkpoint, as a state machine over repeated runs (Spec).  *)
(* SpecParse runs parse_record on its own, next to the parse_record of the *)
(* Tuchtrecht crawler that the repository also holds.                      *)
(*                                                                         *)
(* A Python Optional is a sequence of length at most one: None is <<>>,    *)
(* a present value x is <<x>>.  A text is a sequence of one-character      *)
(* strings.  The SRU server, the network and the clock are the environment *)
(* of the program; the SRU server holds a list of records, each with the   *)
(* time it was last modified.                                              *)
(***************************************************************************)
EXTENDS Integers, Sequences, FiniteSets, TLC

\* ---------------------------------------------------------------- bounds
MaxRecords == 3      \* records the SRU server holds
MaxPageSize == 2     \* PAGE_SIZE ranges over 1..MaxPageSize
MaxShardCap == 2     \* RECORDS_PER_SHARD ranges over 1..MaxShardCap
MaxMaxRecords == 1   \* --max-records: 0..MaxMaxRecords, or the default
MaxClock == 3        \* no run and no modification starts after this time
MaxItems == 3        \* manifestation entries of a record parse_record is given

\* ------------------------------------------------------------ basic values
None == <<>>
Some(x) == <<x>>

Min(a, b) == IF a <= b THEN a ELSE b

SetMax(S) == CHOOSE m \in S : \A x \in S : x <= m
SetMin(S) == CHOOSE m \in S : \A x \in S : m <= x

\* Python's (a or b) on Optionals whose present values are truthy.
OrElse(a, b) == IF a # None THEN a ELSE b

\* ------------------------------------------------------------ shard names
RECURSIVE Digits(_)
Digits(n) == IF n < 10 THEN <<n>> ELSE Digits(n \div 10) \o <<n % 10>>

RECURSIVE ZeroPad(_, _)
ZeroPad(ds, width) == IF Len(ds) >= width THEN ds ELSE ZeroPad(<<0>> \o ds, width)

\* f"verdragenbank_shard_{shard_index:03d}.jsonl": the digits are the part of
\* the name that varies.
shard_file_name(shard_index) == ZeroPad(Digits(shard_index), 3)

\* int(f.split("_")[-1].split(".")[0])
RECURSIVE shard_file_index(_)
shard_file_index(name) ==
    IF name = <<>> THEN 0
    ELSE 10 * shard_file_index(SubSeq(name, 1, Len(name) - 1)) + name[Len(name)]

\* ----------------------------------------------------- raw records (xmltodict)
\* xmltodict.parse on the elements of one name: a list of them, the bare
\* element when there is exactly one (is_list FALSE), and no key at all when
\* there is none, which the default [] of .get stands in for.
xmltodict_elements(elements) ==
    IF Len(elements) = 1 THEN [is_list |-> FALSE, val |-> elements[1]]
    ELSE [is_list |-> TRUE, val |-> elements]

\* A raw record as xmltodict hands it over: gzd:itemUrl holds the
\* manifestation entries; an entry's '#text' and the record's gzd:url may
\* be absent.  modified is the server's dt.modified.
Item(manifestation, text) == [manifestation |-> manifestation, text |-> text]

RawRecord(id, modified, items, url) ==
    [id |-> id, modified |-> modified,
     itemUrl |-> xmltodict_elements(items), url |-> url]

Url(id, kind) == <<id, kind>>

\* The records of the main specification: one with a PDF and an XML
\* manifestation, one with a single PDF manifestation (a bare entry), and
\* one with no manifestation and no gzd:url, that is, with no usable URL.
RecordKinds == {"xml", "pdf", "none"}

RecordOfKind(id, kind) ==
    CASE kind = "xml" ->
            RawRecord(id, 0,
                      <<Item("pdf", Some(Url(id, "pdf"))),
                        Item("xml", Some(Url(id, "xml")))>>, None)
      [] kind = "pdf" ->
            RawRecord(id, 0, <<Item("pdf", Some(Url(id, "pdf")))>>, None)
      [] OTHER ->
            RawRecord(id, 0, <<>>, None)

\* ------------------------------------------------------------------ texts
PLACEHOLDER ==
    <<"C","o","n","t","e","n","t"," ","f","r","o","m"," ","n","o","n","-",
      "X","M","L"," ","s","o","u","r","c","e",","," ","e",".","g",".",",",
      " ","P","D","F",","," ","n","o","t"," ","e","x","t","r","a","c","t",
      "e","d",".">>

SOURCE == "Verdragenbank"

\* ------------------------------------------------------------ parse_record
\* What the GET of get_full_text comes to: raise_for_status or the
\* connection raises (RequestException), ET.fromstring raises (ParseError),
\* something raises an exception of another class (Exception), which
\* get_full_text lets through, or the text of the document's nodes, which
\* may be empty.
FetchOk(text) == [status |-> "ok", text |-> text]
FetchFailed(status) == [status |-> status, text |-> <<>>]

get_full_text(url, resp) ==
    IF resp.status = "ok" THEN Some(resp.text) ELSE None

\* if not isinstance(item_urls, list): item_urls = [item_urls]
item_urls_of(record) ==
    IF record.itemUrl.is_list THEN record.itemUrl.val
    ELSE <<record.itemUrl.val>>

\* for item in item_urls: if item.get('@manifestation') == kind:
\*     url = item.get('#text'); break
first_of_kind(item_urls, kind) ==
    LET hits == {i \in 1..Len(item_urls) : item_urls[i].manifestation = kind}
    IN  IF hits = {} THEN None
        ELSE item_urls[CHOOSE i \in hits : \A j \in hits : i <= j].text

xml_url_of(record) ==
    LET item_urls == item_urls_of(record)
        xml_nl == first_of_kind(item_urls, "xml-nl")
    IN  IF xml_nl # None THEN xml_nl ELSE first_of_kind(item_urls, "xml")

pdf_url_of(record) ==
    IF xml_url_of(record) # None THEN None
    ELSE first_of_kind(item_urls_of(record), "pdf")

target_url_of(record) ==
    OrElse(xml_url_of(record), OrElse(pdf_url_of(record), record.url))

\* A variant to try C11 against: the content is fetched whatever the kind
\* of the selected URL.
content_fetch_mutant(record) == target_url_of(record)

\* The URL parse_record calls get_full_text with, that is, issues a GET for:
\* get_full_text(target_url) if xml_url else the placeholder.
content_fetch(record) ==
    IF xml_url_of(record) # None THEN target_url_of(record) ELSE None

\* Whether parse_record calls get_full_text.
fetches_content(record) == content_fetch(record) # None

\* Whether the call of get_full_text raises into parse_record, whose
\* "except Exception" then returns None.
raises(xml_url, resp) == xml_url # None /\ resp.status = "Exception"

\* A variant to try C12 against: a failed content fetch gives a document
\* with the placeholder instead of None.
parse_record_mutant(record, resp) ==
    LET target_url == target_url_of(record)
    IN  IF target_url = None THEN None
        ELSE Some([URL |-> target_url[1], Content |-> PLACEHOLDER,
                   Source |-> SOURCE])

parse_record(record, resp) ==
    LET xml_url == xml_url_of(record)
        target_url == target_url_of(record)
        content == IF xml_url # None THEN get_full_text(target_url[1], resp)
                   ELSE Some(PLACEHOLDER)
    IN  IF target_url = None THEN None
        ELSE IF raises(xml_url, resp) THEN None
        ELSE IF content = None \/ content = Some(<<>>) THEN None
        ELSE Some([URL |-> target_url[1], Content |-> content[1],
                   Source |-> SOURCE])

\* parse_record of the Tuchtrecht crawler (crawler/parser.py): the same
\* but for the xml-nl tier, which it does not have, and the Source.
TUCHTRECHT_SOURCE == "Tuchtrecht"

tuchtrecht_xml_url_of(record) == first_of_kind(item_urls_of(record), "xml")

tuchtrecht_fetches_content(record) == tuchtrecht_xml_url_of(record) # None

tuchtrecht_parse_record(record, resp) ==
    LET xml_url == tuchtrecht_xml_url_of(record)
        pdf_url == IF xml_url # None THEN None
                   ELSE first_of_kind(item_urls_of(record), "pdf")
        target_url == OrElse(xml_url, OrElse(pdf_url, record.url))
        content == IF xml_url # None THEN get_full_text(target_url[1], resp)
                   ELSE Some(PLACEHOLDER)
    IN  IF target_url = None THEN None
        ELSE IF raises(xml_url, resp) THEN None
        ELSE IF content = None \/ content = Some(<<>>) THEN None
        ELSE Some([URL |-> target_url[1], Content |-> content[1],
                   Source |-> TUCHTRECHT_SOURCE])

\* ------------------------------------------------------------------ state
VARIABLES
    PAGE_SIZE,                 \* maximumRecords of a request, and the step
    RECORDS_PER_SHARD,         \* capacity of a shard file
    server,                    \* the records the SRU server holds, in order
    clock,                     \* datetime.now(), a logical clock
    checkpoint,                \* .last_update: None, or Some(timestamp)
    files,                     \* data/: shard file name -> the lines in it
    pc,                        \* main: "idle", "loop", "body", "finish"
                               \* (after the loop)
    args,                      \* [reset, max_records] of the running main
    last_run_date,
    shard_index,
    records_in_current_shard,
    writer,                    \* name of the open shard file, None when closed
    processed_count,
    record,                    \* the record the loop body holds
    parsed,                    \* main's parsed: what parse_record returned
    query,                     \* get_records: the query of every request
    start_record,              \* get_records: startRecord of the last request
    gen_pc,                    \* get_records: "start", "page", "ended"
    buffer,                    \* get_records: records of the page not yet yielded
    runs,                      \* history: invocations of main so far
    modifications,             \* history: server modifications so far
    requests,                  \* history: startRecord of each request of the run
    yielded,                   \* history: records yielded in the run
    written,                   \* history: documents written in the run
    outcomes,                  \* history: what each request of the run came to
    run_start,                 \* history: checkpoint, clock, files at main's start
    saves,                     \* history: calls of save_last_run_date in the run
    network,                   \* history: the GETs of the run, in order
    response,                  \* history: what the content GET of the record
                               \* handled last came to, NoFetch with no GET
    reported,                  \* history: None, then the count main printed
                               \* at its end
    reads,                     \* history: calls of get_last_run_date in the run
    Content,                   \* the text a scrub function is called with
    applied,                   \* history: the calls of scrub functions made,
                               \* each with its rule, its input and its output
    caller,                    \* the function that called _SESSION.get
    retries,                   \* the Retry object of the GET: what is left
                               \* of its total
    attempts,                  \* history: what each attempt of the GET came to
    get_result,                \* None in flight, then what _SESSION.get
                               \* returned or raised
    caller_end                 \* None, then how the caller went on

config == <<PAGE_SIZE, RECORDS_PER_SHARD>>
mainVars == <<args, last_run_date, shard_index, records_in_current_shard,
              writer, processed_count, record, parsed>>
genVars == <<query, start_record, gen_pc, buffer>>
histVars == <<requests, outcomes, yielded, written, run_start, saves,
              network, response, reported, reads>>
scrubVars == <<Content, applied>>
sessionVars == <<caller, retries, attempts, get_result, caller_end>>
vars == <<config, server, clock, checkpoint, files, pc, mainVars, genVars,
          runs, modifications, histVars, scrubVars, sessionVars>>

\* ---------------------------------------------------------- the checkpoint
\* The decimal digits of a number as characters.
DecimalChars == <<"0", "1", "2", "3", "4", "5", "6", "7", "8", "9">>
DecimalText(n) == [i \in DOMAIN Digits(n) |-> DecimalChars[Digits(n)[i] + 1]]

\* datetime.now(timezone.utc).isoformat(): the instant in digits and the
\* offset of UTC. The instant is written here as the reading of the clock.
UTC_OFFSET == <<"+", "0", "0", ":", "0", "0">>
isoformat(now) == DecimalText(now) \o UTC_OFFSET

\* str.strip(): the text without its leading and its trailing whitespace.
Whitespace == {" ", "\t", "\n", "\r"}
RECURSIVE lstrip(_)
lstrip(text) ==
    IF text # <<>> /\ Head(text) \in Whitespace THEN lstrip(Tail(text))
    ELSE text
RECURSIVE rstrip(_)
rstrip(text) ==
    IF text # <<>> /\ text[Len(text)] \in Whitespace
    THEN rstrip(SubSeq(text, 1, Len(text) - 1))
    ELSE text
strip(text) == rstrip(lstrip(text))

\* get_last_run_date: the file's content stripped, None when there is no
\* file.
get_last_run_date(file) ==
    IF file = None THEN None ELSE Some(strip(file[1]))

\* save_last_run_date writes datetime.now() at the time it is called, in
\* ISO format.
save_last_run_date(now) == Some(isoformat(now))

\* The truth value of an Optional[str] in a condition: None and the empty
\* string are false.
truthy(value) == value # None /\ value[1] # <<>>

\* ------------------------------------------------------------- the server
BASE_QUERY == "c.product-area==vd"

\* A variant to try C21 against: the since clause is never added.
make_query_mutant(base, start_date) == [base |-> base, since |-> None]

\* if start_date: query = f"({query}) AND dt.modified>={start_date}"
\* The text of the query is kept in its two parts.
make_query(base, start_date) ==
    [base |-> base, since |-> IF truthy(start_date) THEN start_date ELSE None]

\* The instant the server reads in the text of a since clause: the number
\* its leading digits write.
RECURSIVE InstantOf(_, _)
InstantOf(text, n) ==
    IF text # <<>> /\ \E d \in 1..10 : DecimalChars[d] = Head(text)
    THEN InstantOf(Tail(text),
                   10 * n + (CHOOSE d \in 1..10 : DecimalChars[d] = Head(text))
                   - 1)
    ELSE n

\* The records the query selects: every record of the product area, and
\* with a since clause those modified at or after it.
Matching(srv, q) ==
    SelectSeq(srv, LAMBDA r : \/ q.since = None
                              \/ r.modified >= InstantOf(q.since[1], 0))

\* searchRetrieve: records startRecord .. startRecord + maximumRecords - 1.
SearchRetrieve(srv, q, startRecord, maximumRecords) ==
    LET m == Matching(srv, q)
        last == Min(startRecord + maximumRecords - 1, Len(m))
    IN  IF startRecord > Len(m) THEN <<>> ELSE SubSeq(m, startRecord, last)

\* response_dict.get('srw:searchRetrieveResponse', {}).get('srw:records',
\* {}).get('srw:record', []) of the parsed response
ResponseRecords(page) == xmltodict_elements(page)

\* if not isinstance(records, list): records = [records]
normalize_records(records) ==
    IF records.is_list THEN records.val ELSE <<records.val>>

\* ---------------------------------------------------------- the commit
\* A variant to try C2 against: no save for a run without a prior
\* checkpoint that wrote nothing.
should_save_mutant(count, last) == count > 0

\* if processed_count > 0 or not last_run_date: save_last_run_date()
should_save(count, last) == count > 0 \/ ~truthy(last)

\* ------------------------------------------------------------ shard files
\* A variant to try C19 against: the first shard of a run is opened as the
\* later ones are, with mode "w".
open_append_mutant(fs, name) ==
    [n \in DOMAIN fs \cup {name} |-> IF n = name THEN <<>> ELSE fs[n]]

\* jsonlines.open(output_file, mode="a"): creates the file when missing.
open_append(fs, name) ==
    [n \in DOMAIN fs \cup {name} |-> IF n \in DOMAIN fs THEN fs[n] ELSE <<>>]

\* A variant to try C8 against: opening the next shard empties the shards
\* written before.
open_write_mutant(fs, name) == [n \in DOMAIN fs \cup {name} |-> <<>>]

\* jsonlines.open(output_file, mode="w"): creates or truncates the file.
open_write(fs, name) ==
    [n \in DOMAIN fs \cup {name} |-> IF n = name THEN <<>> ELSE fs[n]]

\* A variant to try C6 against: the document is put in front of the
\* shard's records.
writer_write_mutant(fs, name, doc) == [fs EXCEPT ![name] = <<doc>> \o @]

\* writer.write(parsed)
writer_write(fs, name, doc) == [fs EXCEPT ![name] = Append(@, doc)]

\* A variant to try C4 against: main moves on from the highest-indexed
\* shard only when it is over capacity.
first_shard_mutant(fs, capacity) ==
    IF DOMAIN fs = {} THEN [shard_index |-> 0, records |-> 0]
    ELSE LET top == SetMax({shard_file_index(n) : n \in DOMAIN fs})
             count == Len(fs[shard_file_name(top)])
         IN  IF count > capacity
             THEN [shard_index |-> top + 1, records |-> 0]
             ELSE [shard_index |-> top, records |-> count]

\* The shard main opens first: shard 0 in an empty directory, else the
\* highest-indexed shard, or the one after it when that one is full.
first_shard(fs, capacity) ==
    IF DOMAIN fs = {} THEN [shard_index |-> 0, records |-> 0]
    ELSE LET top == SetMax({shard_file_index(n) : n \in DOMAIN fs})
             count == Len(fs[shard_file_name(top)])
         IN  IF count >= capacity
             THEN [shard_index |-> top + 1, records |-> 0]
             ELSE [shard_index |-> top, records |-> count]

\* if records_in_current_shard >= RECORDS_PER_SHARD: rotate
shard_full(count, capacity) == count >= capacity

\* if processed_count >= args.max_records: break
cap_reached(count, max_records) == count >= max_records

DEFAULT_MAX_RECORDS == 250

\* A variant to try C7 against: start_record moves on by one record
\* instead of one page.
next_start_mutant(start, page_size) == start + 1

\* start_record += PAGE_SIZE
next_start(start, page_size) == start + page_size

\* What a request of get_records comes to: "ok" with records to yield,
\* "empty" (if not records: break), or the exception that ends the loop.
request_result(outcome, records) ==
    IF outcome = "ok" /\ records.is_list /\ records.val = <<>> THEN "empty"
    ELSE outcome

\* The branches of get_records that break out of its loop.
ends_sequence(result) == result # "ok"

\* ------------------------------------------------------ regular expressions
\* The part of Python's re the scrubber's patterns use, as a backtracking
\* matcher: Ends(node, text, pos) is the sequence of positions a match of
\* node that starts at pos can end at, in the order the engine tries them
\* (greedy quantifiers first take as much as they can).
UpperSeq == <<"A","B","C","D","E","F","G","H","I","J","K","L","M",
              "N","O","P","Q","R","S","T","U","V","W","X","Y","Z">>
LowerSeq == <<"a","b","c","d","e","f","g","h","i","j","k","l","m",
              "n","o","p","q","r","s","t","u","v","w","x","y","z">>
Upper == {UpperSeq[i] : i \in DOMAIN UpperSeq}
Lower == {LowerSeq[i] : i \in DOMAIN LowerSeq}
DigitChars == {"0","1","2","3","4","5","6","7","8","9"}
Space == {" ", "\n", "\t"}                            \* \s
WordChars == Upper \cup Lower \cup DigitChars \cup {"_"}  \* \w

\* re.IGNORECASE on a set of characters: a character matches when its
\* other-case form is in the set.
IgnoreCase(set) ==
    set \cup {LowerSeq[i] : i \in {j \in DOMAIN UpperSeq : UpperSeq[j] \in set}}
        \cup {UpperSeq[i] : i \in {j \in DOMAIN LowerSeq : LowerSeq[j] \in set}}

Node(op, set, kids, lo, hi) ==
    [op |-> op, set |-> set, kids |-> kids, lo |-> lo, hi |-> hi]

\* Every pattern of the scrubber starts with (?i): literals and classes
\* alike are matched ignoring case.
Chr(set) == Node("chr", IgnoreCase(set), <<>>, 0, 0)
NotChr(set) == Node("notchr", IgnoreCase(set), <<>>, 0, 0)
WordBoundary == Node("wordb", {}, <<>>, 0, 0)
Cat(kids) == Node("cat", {}, kids, 0, 0)
Alt(kids) == Node("alt", {}, kids, 0, 0)
\* node{lo,hi}, greedy; hi = -1 is no upper limit
Rep(node, lo, hi) == Node("rep", {}, <<node>>, lo, hi)
Opt(node) == Rep(node, 0, 1)
Lit(chars) == Cat([i \in DOMAIN chars |-> Chr({chars[i]})] \o <<>>)

IsWordAt(text, pos) == pos >= 1 /\ pos <= Len(text) /\ text[pos] \in WordChars

\* A single character matched lo to hi times: the longest run first, then
\* one character less at a time.
CharMatches(node, c) ==
    IF node.op = "chr" THEN c \in node.set ELSE c \notin node.set

RunEnds(node, lo, hi, text, pos) ==
    LET avail == Len(text) - pos + 1
        limit == IF hi < 0 THEN avail ELSE Min(hi, avail)
        lens == {n \in 0..limit :
                    \A i \in pos..(pos + n - 1) : CharMatches(node, text[i])}
        longest == SetMax(lens)
    IN  IF longest < lo THEN <<>>
        ELSE [k \in 1..(longest - lo + 1) |-> pos + longest - k + 1] \o <<>>

\* The positions in the sequences of lists, each once, in the order of
\* their first occurrence in lists[1] \o lists[2] \o ...
OrderedUnion(lists) ==
    LET all == UNION {{lists[i][j] : j \in DOMAIN lists[i]} : i \in DOMAIN lists}
        FirstList(e) ==
            CHOOSE i \in DOMAIN lists :
                /\ \E j \in DOMAIN lists[i] : lists[i][j] = e
                /\ \A h \in 1..(i - 1) : \A j \in DOMAIN lists[h] : lists[h][j] # e
        FirstIn(e, i) ==
            CHOOSE j \in DOMAIN lists[i] :
                lists[i][j] = e /\ \A h \in 1..(j - 1) : lists[i][h] # e
        Before(a, b) ==
            \/ FirstList(a) < FirstList(b)
            \/ /\ FirstList(a) = FirstList(b)
               /\ FirstIn(a, FirstList(a)) < FirstIn(b, FirstList(b))
    IN  [k \in 1..Cardinality(all) |->
            CHOOSE e \in all : Cardinality({x \in all : Before(x, e)}) = k - 1]
        \o <<>>

RECURSIVE Ends(_, _, _)
RECURSIVE CatEnds(_, _, _, _)
RECURSIVE RepEnds(_, _, _, _, _)

Ends(node, text, pos) ==
    CASE node.op = "chr" ->
            IF pos <= Len(text) /\ text[pos] \in node.set
            THEN <<pos + 1>> ELSE <<>>
      [] node.op = "notchr" ->
            IF pos <= Len(text) /\ text[pos] \notin node.set
            THEN <<pos + 1>> ELSE <<>>
      [] node.op = "wordb" ->
            IF IsWordAt(text, pos - 1) # IsWordAt(text, pos)
            THEN <<pos>> ELSE <<>>
      [] node.op = "cat" -> CatEnds(node.kids, 1, text, <<pos>>)
      [] node.op = "alt" ->
            OrderedUnion([k \in DOMAIN node.kids |->
                             Ends(node.kids[k], text, pos)] \o <<>>)
      [] node.op = "rep" /\ node.kids[1].op \in {"chr", "notchr"} ->
            RunEnds(node.kids[1], node.lo, node.hi, text, pos)
      [] OTHER -> RepEnds(node.kids[1], node.lo, node.hi, text, pos)

\* kids[k..] matched one after the other, from each of the positions starts.
CatEnds(kids, k, text, starts) ==
    IF k > Len(kids) \/ starts = <<>> THEN starts
    ELSE CatEnds(kids, k + 1, text,
                 OrderedUnion([i \in DOMAIN starts |->
                                  Ends(kids[k], text, starts[i])] \o <<>>))

\* node{lo,hi}: first one more repetition from each end of node, in order
\* (a repetition that consumes nothing is not repeated), then stopping here.
RepEnds(node, lo, hi, text, pos) ==
    LET ends == IF hi = 0 THEN <<>> ELSE Ends(node, text, pos)
        more == [i \in DOMAIN ends |->
                    IF ends[i] > pos
                    THEN RepEnds(node, lo - 1, IF hi > 0 THEN hi - 1 ELSE hi,
                                 text, ends[i])
                    ELSE <<>>]
        stop == IF lo <= 0 THEN <<pos>> ELSE <<>>
    IN  OrderedUnion(more \o <<stop>>)

\* The characters a match of node can start with (node is not one that
\* can match the empty text, nor one that starts with a negated class).
RECURSIVE FirstChars(_)
FirstChars(node) ==
    CASE node.op = "chr" -> node.set
      [] node.op = "cat" -> FirstChars(node.kids[1])
      [] node.op = "alt" ->
            UNION {FirstChars(node.kids[k]) : k \in DOMAIN node.kids}
      [] OTHER -> FirstChars(node.kids[1])

\* A pattern of the scrubber: what precedes group 1 (of width zero), group
\* 1, and the rest; first is the set of characters a match can start with,
\* which the engine's search uses to skip the positions that cannot match.
Pattern(pre, g1, rest) ==
    [pre |-> pre, g1 |-> g1, rest |-> rest, first |-> FirstChars(g1)]

\* A match at pos takes the first end of group 1 from which the rest
\* matches, and the first end of the rest from there.
MatchPick(pos, g1, rests, ok) ==
    IF ok = {}
    THEN [found |-> FALSE, start |-> pos, g1_end |-> pos, end |-> pos]
    ELSE [found |-> TRUE, start |-> pos, g1_end |-> g1[SetMin(ok)],
          end |-> rests[SetMin(ok)][1]]

MatchRest(pattern, text, pos, g1, rests) ==
    MatchPick(pos, g1, rests, {i \in DOMAIN g1 : rests[i] # <<>>})

MatchGroup(pattern, text, pos, g1) ==
    MatchRest(pattern, text, pos, g1,
              [i \in DOMAIN g1 |-> Ends(pattern.rest, text, g1[i])] \o <<>>)

MatchFrom(pattern, text, pos, pre) ==
    MatchGroup(pattern, text, pos,
               IF text[pos] \notin pattern.first \/ pre = <<>> THEN <<>>
               ELSE Ends(pattern.g1, text, pre[1]))

MatchAt(pattern, text, pos) ==
    MatchFrom(pattern, text, pos, Ends(pattern.pre, text, pos))

\* pattern.sub(lambda m: f"{m.group(1)}<replacement>", text): the search
\* goes left to right from pos over the positions a match can start at;
\* matches do not overlap, and what lies between them is copied.
RECURSIVE Sub(_, _, _, _)
SubMatch(pattern, replacement, text, pos, m) ==
    (IF m.found THEN SubSeq(text, pos, m.g1_end - 1) \o replacement
     ELSE SubSeq(text, pos, m.start))
    \o Sub(pattern, replacement, text, IF m.found THEN m.end ELSE m.start + 1)

Sub(pattern, replacement, text, pos) ==
    LET candidates == {i \in pos..Len(text) : text[i] \in pattern.first}
    IN  IF candidates = {} THEN SubSeq(text, pos, Len(text))
        ELSE SubMatch(pattern, replacement, text, pos,
                      MatchAt(pattern, text, SetMin(candidates)))

\* ------------------------------------------------------------ the scrubber
\* Texts are ASCII here: NameStart is the ASCII part of the class
\* [A-Z\u00C0-\u00D6\u00D8-\u00F6\u00F8-\u00FF], and NameChars that of the class
\* of letters, full stop, apostrophe, grave accent and hyphen (without the
\* grave accent, which a TLA+ string cannot hold).
NameStart == Upper
NameChars == Upper \cup Lower \cup {".", "'", "-"}

Spaces1 == Rep(Chr(Space), 1, -1)       \* \s+
Spaces0 == Rep(Chr(Space), 0, -1)       \* \s*
Dot == Chr({"."})
\* NameStart NameChars+
NameWord == Cat(<<Chr(NameStart), Rep(Chr(NameChars), 1, -1)>>)
\* ((?:[A-Z]\.)+\s*)?
Initials == Opt(Cat(<<Rep(Cat(<<Chr(Upper), Dot>>), 1, -1), Spaces0>>))
\* NameWord(?:\s+NameWord){0,2}
Names == Cat(<<NameWord, Rep(Cat(<<Spaces1, NameWord>>), 0, 2)>>)

NAAM == <<"N", "A", "A", "M">>

_TITLE_NAME_PATTERN ==
    Pattern(WordBoundary,
            Alt(<<Cat(<<Lit(<<"m","r">>), Opt(Dot)>>),
                  Cat(<<Lit(<<"p","r","o","f">>), Opt(Dot)>>),
                  Cat(<<Lit(<<"d","r">>), Opt(Dot)>>),
                  Cat(<<Lit(<<"i","r">>), Opt(Dot)>>)>>),
            Cat(<<Spaces1, Initials, Names>>))

_PARTY_PATTERN ==
    Pattern(WordBoundary,
            Alt(<<Lit(<<"k","l","a","g","e","r">>),
                  Lit(<<"v","e","r","w","e","e","r","d","e","r">>)>>),
            Cat(<<Spaces1, Opt(Cat(<<Chr(Upper), Dot>>)), Spaces0, NameWord>>))

_COURTESY_PATTERN ==
    Pattern(WordBoundary,
            Alt(<<Cat(<<Lit(<<"d","e">>), Spaces1, Lit(<<"h","e","e","r">>)>>),
                  Lit(<<"m","e","v","r","o","u","w">>),
                  Cat(<<Lit(<<"m","e","v","r">>), Opt(Dot)>>)>>),
            Cat(<<Spaces1, Initials, Names>>))

_GEMACHTIGDE_PATTERN ==
    Pattern(Cat(<<>>),
            Cat(<<Lit(<<"g","e","m","a","c","h","t","i","g","d","e">>),
                  Rep(NotChr({"\n"}), 0, 10),
                  Opt(Cat(<<Lit(<<"m","r">>), Dot, Spaces0>>))>>),
            Rep(Cat(<<Rep(Chr(NameChars), 1, -1), Spaces0>>), 1, 5))

\* lambda m: f"{m.group(1)} NAAM"
scrub_title_names(text) ==
    IF text = <<>> THEN text
    ELSE Sub(_TITLE_NAME_PATTERN, <<" ">> \o NAAM, text, 1)

scrub_party_names(text) ==
    IF text = <<>> THEN text
    ELSE Sub(_PARTY_PATTERN, <<" ">> \o NAAM, text, 1)

scrub_courtesy_names(text) ==
    IF text = <<>> THEN text
    ELSE Sub(_COURTESY_PATTERN, <<" ">> \o NAAM, text, 1)

\* lambda m: f"{m.group(1)}NAAM"
scrub_gemachtigde_names(text) ==
    IF text = <<>> THEN text
    ELSE Sub(_GEMACHTIGDE_PATTERN, NAAM, text, 1)

scrub_text(text) ==
    IF text = <<>> THEN text
    ELSE scrub_gemachtigde_names(
             scrub_courtesy_names(scrub_party_names(scrub_title_names(text))))

\* ------------------------------------------------------------ environment
\* The texts a fetched XML document flattens to: a text with a title and a
\* name, and the empty text.
NameText == <<"m", "r", ".", " ", "J", "a", "n">>

FetchResponses ==
    {FetchOk(NameText), FetchOk(<<>>),
     FetchFailed("RequestException"), FetchFailed("ParseError"),
     FetchFailed("Exception")}

\* No GET is made for a record parse_record does not fetch the content of.
NoFetch == FetchFailed("none")

\* What a page request comes to: a response, a transport failure after the
\* session's retries (RequestException), or a response xmltodict cannot
\* process (any other Exception).
PageOutcomes == {"ok", "RequestException", "Exception"}

\* The values of --max-records: small ones, and the default.
MaxRecordsArgs == 0..MaxMaxRecords \cup {DEFAULT_MAX_RECORDS}

Servers ==
    UNION {[1..n -> RecordKinds] : n \in 0..MaxRecords}

\* The entries of the history of GETs: _SESSION.get(BASE_URL, params) of
\* get_records with the startRecord and the query of its params, and
\* _SESSION.get(url) of get_full_text.
PageGet(start) == [op |-> "page", arg |-> start, query |-> query]
ContentGets(url) ==
    IF url = None THEN <<>> ELSE <<[op |-> "content", arg |-> url[1]]>>

\* ------------------------------------------------------------ get_session
\* Retry(total=5, backoff_factor=1, status_forcelist=[429, 500, 502, 503,
\* 504], allowed_methods=["GET"]), mounted on the session for http:// and
\* https://. The other arguments of Retry keep their defaults:
\* respect_retry_after_header is True and raise_on_status is True.
total == 5
status_forcelist == {429, 500, 502, 503, 504}
allowed_methods == {"GET"}
RETRY_AFTER_STATUS_CODES == {413, 429, 503}

\* What an attempt comes to: a response with its status, with or without a
\* Retry-After header, or a connection or read error.
Response(status, retry_after) ==
    [kind |-> "response", status |-> status, retry_after |-> retry_after]
AttemptError == [kind |-> "error", status |-> 0, retry_after |-> FALSE]

\* Retry.is_retry(method, status_code, has_retry_after), of a Retry
\* object with left of its total left: a status of status_forcelist, or,
\* while total is not 0, a Retry-After header with one of the statuses
\* the header is respected for.
is_retry(left, method, status_code, has_retry_after) ==
    /\ method \in allowed_methods
    /\ \/ status_code \in status_forcelist
       \/ /\ left # 0
          /\ has_retry_after
          /\ status_code \in RETRY_AFTER_STATUS_CODES

\* Whether the attempt is one the Retry object counts: an error, or a
\* response is_retry holds of.
counts_against_retries(left, outcome) ==
    \/ outcome.kind = "error"
    \/ is_retry(left, "GET", outcome.status, outcome.retry_after)

\* Retry.increment() takes one off total, and Retry.is_exhausted() holds
\* when that falls below zero.
is_exhausted(left) == left < 0

\* What _SESSION.get raises when the retries are exhausted: RetryError after
\* a response, ConnectionError after an error.
Exhausted(outcome) ==
    [kind |-> IF outcome.kind = "error" THEN "ConnectionError"
              ELSE "RetryError",
     status |-> outcome.status, retry_after |-> outcome.retry_after]

\* response.raise_for_status(): HTTPError for a 4xx or 5xx response. The
\* exception the caller's try block ends with, "none" without one.
exception_of(result) ==
    IF result.kind = "response"
    THEN IF result.status >= 400 THEN "HTTPError" ELSE "none"
    ELSE result.kind

\* The subclasses of requests.exceptions.RequestException among them.
RequestExceptions == {"HTTPError", "RetryError", "ConnectionError"}

\* How get_records goes on: both of its except clauses break.
get_records_end(exception) ==
    IF exception = "none" THEN "page" ELSE "break"

\* How get_full_text goes on: it returns None for a RequestException and
\* lets any other exception through.
get_full_text_end(exception) ==
    IF exception = "none" THEN "text"
    ELSE IF exception \in RequestExceptions THEN "None"
    ELSE "raised"

\* No GET is in flight.
NoGet ==
    /\ caller = "none"
    /\ retries = total
    /\ attempts = <<>>
    /\ get_result = None
    /\ caller_end = None

\* ------------------------------------------------------------------- Init
\* Before the first run: no checkpoint, an empty data directory.  PAGE_SIZE
\* (100 in the code) and RECORDS_PER_SHARD (1000) are constants of the
\* module; a behaviour fixes each at a small value.
Init ==
    /\ PAGE_SIZE \in 1..MaxPageSize
    /\ RECORDS_PER_SHARD \in 1..MaxShardCap
    /\ \E kinds \in Servers :
           server = [i \in DOMAIN kinds |-> RecordOfKind(i, kinds[i])]
    /\ clock = 1
    /\ checkpoint = None
    /\ files = <<>>
    /\ pc = "idle"
    /\ args = [reset |-> FALSE, max_records |-> 0]
    /\ last_run_date = None
    /\ shard_index = 0
    /\ records_in_current_shard = 0
    /\ writer = None
    /\ processed_count = 0
    /\ record = None
    /\ parsed = None
    /\ query = make_query(BASE_QUERY, None)
    /\ start_record = 1
    /\ gen_pc = "ended"
    /\ buffer = <<>>
    /\ runs = 0
    /\ modifications = 0
    /\ requests = <<>>
    /\ yielded = <<>>
    /\ written = <<>>
    /\ outcomes = <<>>
    /\ run_start = [checkpoint |-> None, clock |-> 1, files |-> <<>>]
    /\ saves = 0
    /\ network = <<>>
    /\ response = NoFetch
    /\ reported = None
    /\ reads = 0
    /\ Content = <<>>
    /\ applied = <<>>
    /\ NoGet

\* ------------------------------------------------------------------ main
\* main up to the record loop: --reset removes the checkpoint, the window
\* is set, get_records is called (its body runs up to the loop on the first
\* pull and reads its arguments only), the first shard is opened for append.
main_start(reset, max_records) ==
    /\ pc = "idle"
    /\ clock <= MaxClock
    /\ LET file == IF reset THEN None ELSE checkpoint
           last == IF reset THEN None ELSE get_last_run_date(file)
           first == first_shard(files, RECORDS_PER_SHARD)
           name == shard_file_name(first.shard_index)
       IN  /\ checkpoint' = file
           /\ last_run_date' = last
           /\ query' = make_query(BASE_QUERY, last)
           /\ shard_index' = first.shard_index
           /\ records_in_current_shard' = first.records
           /\ writer' = Some(name)
           /\ files' = open_append(files, name)
    /\ args' = [reset |-> reset, max_records |-> max_records]
    /\ start_record' = 1
    /\ gen_pc' = "start"
    /\ buffer' = <<>>
    /\ processed_count' = 0
    /\ record' = None
    /\ parsed' = None
    /\ pc' = "loop"
    /\ runs' = runs + 1
    /\ requests' = <<>>
    /\ yielded' = <<>>
    /\ written' = <<>>
    /\ outcomes' = <<>>
    /\ run_start' = [checkpoint |-> checkpoint, clock |-> clock, files |-> files]
    /\ saves' = 0
    /\ network' = <<>>
    /\ response' = NoFetch
    /\ reported' = None
    /\ reads' = IF reset THEN 0 ELSE 1
    /\ UNCHANGED <<config, scrubVars, sessionVars, server, clock,
                   modifications>>

\* A variant to try C18 against: the next page is requested while a record
\* of the page is still to be yielded.
page_done_mutant(left) == Len(left) <= 1

\* for record in records: yield record -- has yielded every record of the
\* page, so that get_records goes on to start_record += PAGE_SIZE and the
\* next request.
page_done(left) == left = <<>>

\* The loop pulls a record and get_records has one of the page left.
get_records_yield ==
    /\ pc = "loop"
    /\ gen_pc = "page"
    /\ buffer # <<>>
    /\ record' = Some(Head(buffer))
    /\ buffer' = Tail(buffer)
    /\ yielded' = Append(yielded, Head(buffer))
    /\ pc' = "body"
    /\ UNCHANGED <<config, scrubVars, sessionVars, server, clock, checkpoint,
                   files, args, last_run_date, shard_index,
                   records_in_current_shard, writer, processed_count, parsed,
                   query, start_record, gen_pc, runs, modifications, requests,
                   outcomes, written, run_start, saves, network, reported, reads>>
    /\ response' = NoFetch

\* The loop pulls a record and get_records has none left: it requests the
\* next page (past the page it has yielded) and yields its first record,
\* or ends on an empty page or on an exception, which ends the loop.
get_records_request(outcome) ==
    /\ pc = "loop"
    /\ gen_pc \in {"start", "page"}
    /\ page_done(buffer)
    /\ LET start == IF gen_pc = "start" THEN start_record
                    ELSE next_start(start_record, PAGE_SIZE)
           records == ResponseRecords(
                          SearchRetrieve(server, query, start, PAGE_SIZE))
           result == request_result(outcome, records)
           page == normalize_records(records)
       IN  /\ start_record' = start
           /\ requests' = Append(requests, start)
           /\ network' = Append(network, PageGet(start))
           /\ response' = NoFetch
           /\ outcomes' = Append(outcomes, result)
           /\ IF ends_sequence(result)
              THEN /\ gen_pc' = "ended"
                   /\ pc' = "finish"
                   /\ UNCHANGED <<record, buffer, yielded>>
              ELSE /\ record' = Some(Head(page))
                   /\ buffer' = Tail(page)
                   /\ yielded' = Append(yielded, Head(page))
                   /\ gen_pc' = "page"
                   /\ pc' = "body"
    /\ clock' = clock + 1
    /\ UNCHANGED <<config, scrubVars, sessionVars, server, checkpoint, files,
                   args, last_run_date, shard_index, records_in_current_shard,
                   writer, processed_count, parsed, query, runs,
                   modifications, written, run_start, saves, reported, reads>>

\* A variant to try C17 against: a document is counted twice.
incremented_mutant(count) == count + 2

\* processed_count += 1
incremented(count) == count + 1

\* if parsed: the document is written and counted; then the max-records
\* check, and after it the rotation of the shard. took is the time the
\* parse and the write took.
write_parsed(doc, took) ==
    LET count == incremented(processed_count)
        in_shard == records_in_current_shard + 1
        stop == cap_reached(count, args.max_records)
        rotate == ~stop /\ shard_full(in_shard, RECORDS_PER_SHARD)
        next_name == shard_file_name(shard_index + 1)
        wrote == writer_write(files, writer[1], doc)
    IN  /\ clock' = clock + took
        /\ parsed' = Some(doc)
        /\ processed_count' = count
        /\ written' = Append(written, doc)
        /\ pc' = IF stop THEN "finish" ELSE "loop"
        /\ IF rotate
           THEN /\ files' = open_write(wrote, next_name)
                /\ shard_index' = shard_index + 1
                /\ records_in_current_shard' = 0
                /\ writer' = Some(next_name)
           ELSE /\ files' = wrote
                /\ records_in_current_shard' = in_shard
                /\ UNCHANGED <<shard_index, writer>>

\* A variant to try C16 against: the redaction rewrites the URL too.
scrubbed_mutant(doc) ==
    [doc EXCEPT !.Content = scrub_text(@), !.URL = <<doc.URL[1], "NAAM">>]

\* parsed["Content"] = scrub_text(parsed["Content"])
scrubbed(doc) == [doc EXCEPT !.Content = scrub_text(@)]

\* parsed = parse_record(record); if parsed: parsed["Content"] =
\* scrub_text(parsed["Content"]) ...
handle_parsed(result, fetched) ==
    IF result = None
    THEN /\ clock' = clock + fetched
         /\ parsed' = None
         /\ pc' = "loop"
         /\ UNCHANGED <<files, shard_index, records_in_current_shard,
                        writer, processed_count, written>>
    ELSE write_parsed(scrubbed(result[1]), fetched + 1)

\* The body of the loop for one record: parse_record (with its content
\* fetch, if any), scrub_text, the write, the max-records check and the
\* rotation of the shard.
main_loop_body(resp) ==
    /\ pc = "body"
    /\ resp = NoFetch <=> ~fetches_content(record[1])
    /\ handle_parsed(parse_record(record[1], resp),
                     IF fetches_content(record[1]) THEN 1 ELSE 0)
    /\ network' = network \o ContentGets(content_fetch(record[1]))
    /\ response' = resp
    /\ record' = None
    /\ UNCHANGED <<config, scrubVars, sessionVars, server, checkpoint, args,
                   last_run_date, query, start_record, gen_pc, buffer, runs,
                   modifications, requests, outcomes, yielded, run_start,
                   saves, reported, reads>>

\* After the loop: the writer is closed and the count is reported.
main_finish ==
    /\ pc = "finish"
    /\ writer # None
    /\ writer' = None
    /\ reported' = Some(processed_count)
    /\ response' = NoFetch
    /\ UNCHANGED <<config, scrubVars, sessionVars, server, clock, checkpoint,
                   files, pc, args, last_run_date, shard_index,
                   records_in_current_shard, processed_count, record, parsed,
                   genVars, runs, modifications, requests, outcomes, yielded,
                   written, run_start, saves, network, reads>>

\* A variant to try C20 against: the checkpoint is saved as soon as the
\* loop is over, with the shard still open.
main_save_mutant ==
    /\ pc = "finish"
    /\ writer # None
    /\ checkpoint' = save_last_run_date(clock)
    /\ saves' = saves + 1
    /\ UNCHANGED <<config, scrubVars, sessionVars, server, clock, files, pc,
                   mainVars, genVars, runs, modifications, requests, outcomes,
                   yielded, written, run_start, network, response, reported,
                   reads>>

\* The end of main: the checkpoint is saved if the run qualifies.
main_save ==
    /\ pc = "finish"
    /\ writer = None
    /\ IF should_save(processed_count, last_run_date)
       THEN /\ checkpoint' = save_last_run_date(clock)
            /\ saves' = saves + 1
       ELSE UNCHANGED <<checkpoint, saves>>
    /\ pc' = "idle"
    /\ UNCHANGED <<config, scrubVars, sessionVars, server, clock, files,
                   mainVars, genVars, runs, modifications, requests, outcomes,
                   yielded, written, run_start, network, response, reported,
                   reads>>

\* Between two runs the server modifies one of its records.
server_modify(i) ==
    /\ pc = "idle"
    /\ runs >= 1
    /\ clock <= MaxClock
    /\ server' = [server EXCEPT ![i].modified = clock + 1]
    /\ clock' = clock + 1
    /\ modifications' = modifications + 1
    /\ UNCHANGED <<config, scrubVars, sessionVars, checkpoint, files, pc,
                   mainVars, genVars, runs, histVars>>

Next ==
    \/ \E reset \in BOOLEAN, max_records \in MaxRecordsArgs :
           main_start(reset, max_records)
    \/ get_records_yield
    \/ \E outcome \in PageOutcomes : get_records_request(outcome)
    \/ \E resp \in FetchResponses \cup {NoFetch} : main_loop_body(resp)
    \/ main_finish
    \/ main_save
    \/ \E i \in DOMAIN server : server_modify(i)

Spec == Init /\ [][Next]_vars

\* main is a sequential program: once started, a run takes its next step,
\* every GET of it coming back with a response or an exception. The step
\* out of the body of the loop is main_loop_body, which is enabled whenever
\* pc = "body".
BodyEnds == pc = "body" /\ pc' \in {"loop", "finish"}

FairSpec ==
    /\ Spec
    /\ WF_vars(get_records_yield)
    /\ WF_vars(\E outcome \in PageOutcomes : get_records_request(outcome))
    /\ WF_pc(BodyEnds)
    /\ WF_vars(main_finish)
    /\ WF_vars(main_save)

\* ------------------------------------------------- parse_record on its own
\* The records parse_record is given: up to MaxItems manifestation entries
\* of any kind, each with or without a '#text', and a gzd:url or none.
ManifestationKinds == {"xml-nl", "xml", "pdf", "other"}

ItemShapes ==
    UNION {[1..n -> ManifestationKinds \X BOOLEAN] : n \in 0..MaxItems}

RecordOfShape(shape, with_url) ==
    RawRecord(1, 0,
              [i \in DOMAIN shape |->
                  Item(shape[i][1],
                       IF shape[i][2] THEN Some(Url(i, shape[i][1]))
                       ELSE None)],
              IF with_url THEN Some(Url(0, "url")) ELSE None)

InitParse ==
    /\ \E shape \in ItemShapes, with_url \in BOOLEAN :
           record = Some(RecordOfShape(shape, with_url))
    /\ parsed = None
    /\ pc = "parse"
    /\ PAGE_SIZE = 1
    /\ RECORDS_PER_SHARD = 1
    /\ server = <<>>
    /\ clock = 1
    /\ checkpoint = None
    /\ files = <<>>
    /\ args = [reset |-> FALSE, max_records |-> DEFAULT_MAX_RECORDS]
    /\ last_run_date = None
    /\ shard_index = 0
    /\ records_in_current_shard = 0
    /\ writer = None
    /\ processed_count = 0
    /\ query = make_query(BASE_QUERY, None)
    /\ start_record = 1
    /\ gen_pc = "ended"
    /\ buffer = <<>>
    /\ runs = 0
    /\ modifications = 0
    /\ requests = <<>>
    /\ yielded = <<>>
    /\ written = <<>>
    /\ outcomes = <<>>
    /\ run_start = [checkpoint |-> None, clock |-> 1, files |-> <<>>]
    /\ saves = 0
    /\ network = <<>>
    /\ response = NoFetch
    /\ reported = None
    /\ reads = 0
    /\ Content = <<>>
    /\ applied = <<>>
    /\ NoGet

\* parsed = parse_record(record), of crawler.py
parse_record_call(resp) ==
    /\ pc = "parse"
    /\ resp = NoFetch <=> ~fetches_content(record[1])
    /\ parsed' = parse_record(record[1], resp)
    /\ network' = network \o ContentGets(content_fetch(record[1]))
    /\ response' = resp
    /\ pc' = "parsed"
    /\ UNCHANGED <<config, scrubVars, sessionVars, server, clock, checkpoint,
                   files, args, last_run_date, shard_index,
                   records_in_current_shard, writer, processed_count, record,
                   genVars, runs, modifications, requests, outcomes, yielded,
                   written, run_start, saves, reported, reads>>

\* parsed = parse_record(record), of the Tuchtrecht crawler
tuchtrecht_parse_record_call(resp) ==
    /\ pc = "parse"
    /\ resp = NoFetch <=> ~tuchtrecht_fetches_content(record[1])
    /\ parsed' = tuchtrecht_parse_record(record[1], resp)
    /\ network' = network \o ContentGets(tuchtrecht_xml_url_of(record[1]))
    /\ response' = resp
    /\ pc' = "parsed_tuchtrecht"
    /\ UNCHANGED <<config, scrubVars, sessionVars, server, clock, checkpoint,
                   files, args, last_run_date, shard_index,
                   records_in_current_shard, writer, processed_count, record,
                   genVars, runs, modifications, requests, outcomes, yielded,
                   written, run_start, saves, reported, reads>>

NextParse ==
    \/ \E resp \in FetchResponses \cup {NoFetch} : parse_record_call(resp)
    \/ \E resp \in FetchResponses \cup {NoFetch} :
           tuchtrecht_parse_record_call(resp)

SpecParse == InitParse /\ [][NextParse]_vars

\* ----------------------------------------------- the scrubber on its own
\* The texts the scrub functions are given: a title, a party role or a
\* courtesy form, in lower or upper case, and after it up to MaxWords
\* words, each capitalised or not.
MaxWords == 4

KeywordsOf(rule) ==
    CASE rule = "title" -> {<<"m","r",".">>, <<"M","R",".">>}
      [] rule = "party" -> {<<"k","l","a","g","e","r">>,
                            <<"K","l","a","g","e","r">>}
      [] rule = "courtesy" -> {<<"m","e","v","r">>, <<"M","E","V","R">>}

Keywords == UNION {KeywordsOf(rule) : rule \in {"title", "party", "courtesy"}}

Capitalised == <<"A","b">>
Uncapitalised == <<"a","b">>

RECURSIVE JoinWords(_)
JoinWords(words) ==
    IF words = <<>> THEN <<>>
    ELSE <<" ">> \o Head(words) \o JoinWords(Tail(words))

ScrubTexts ==
    {keyword \o JoinWords(words) :
        keyword \in Keywords,
        words \in UNION {[1..n -> {Capitalised, Uncapitalised}] :
                            n \in 0..MaxWords}}

InitScrub ==
    /\ Content \in ScrubTexts
    /\ applied = <<>>
    /\ pc = "scrub"
    /\ record = None
    /\ parsed = None
    /\ PAGE_SIZE = 1
    /\ RECORDS_PER_SHARD = 1
    /\ server = <<>>
    /\ clock = 1
    /\ checkpoint = None
    /\ files = <<>>
    /\ args = [reset |-> FALSE, max_records |-> DEFAULT_MAX_RECORDS]
    /\ last_run_date = None
    /\ shard_index = 0
    /\ records_in_current_shard = 0
    /\ writer = None
    /\ processed_count = 0
    /\ query = make_query(BASE_QUERY, None)
    /\ start_record = 1
    /\ gen_pc = "ended"
    /\ buffer = <<>>
    /\ runs = 0
    /\ modifications = 0
    /\ requests = <<>>
    /\ yielded = <<>>
    /\ written = <<>>
    /\ outcomes = <<>>
    /\ run_start = [checkpoint |-> None, clock |-> 1, files |-> <<>>]
    /\ saves = 0
    /\ network = <<>>
    /\ response = NoFetch
    /\ reported = None
    /\ reads = 0
    /\ NoGet

\* Content = rule(Content): a scrub function is called with a text, and once
\* more with what it returned.
scrub_call(rule, output) ==
    /\ pc = "scrub"
    /\ applied = <<>> \/ (Len(applied) = 1 /\ applied[1].rule = rule)
    /\ Content' = output
    /\ applied' = Append(applied, [rule |-> rule, input |-> Content,
                                   output |-> output])
    /\ UNCHANGED <<config, server, clock, checkpoint, files, pc, mainVars,
                   genVars, runs, modifications, histVars, sessionVars>>

scrub_title_names_call == scrub_call("title", scrub_title_names(Content))

scrub_party_names_call == scrub_call("party", scrub_party_names(Content))

scrub_courtesy_names_call ==
    scrub_call("courtesy", scrub_courtesy_names(Content))

NextScrub ==
    \/ scrub_title_names_call
    \/ scrub_party_names_call
    \/ scrub_courtesy_names_call

SpecScrub == InitScrub /\ [][NextScrub]_vars

\* --------------------------------------------------- one GET of the session
\* The statuses a server answers with, and whether with a Retry-After
\* header.
Responses ==
    {Response(200, FALSE), Response(404, FALSE), Response(413, FALSE),
     Response(413, TRUE), Response(429, FALSE), Response(500, FALSE),
     Response(503, FALSE), Response(503, TRUE)}

AttemptOutcomes == Responses \cup {AttemptError}

InitSession ==
    /\ caller \in {"get_records", "get_full_text"}
    /\ retries = total
    /\ attempts = <<>>
    /\ get_result = None
    /\ caller_end = None
    /\ pc = "get"
    /\ Content = <<>>
    /\ applied = <<>>
    /\ record = None
    /\ parsed = None
    /\ PAGE_SIZE = 1
    /\ RECORDS_PER_SHARD = 1
    /\ server = <<>>
    /\ clock = 1
    /\ checkpoint = None
    /\ files = <<>>
    /\ args = [reset |-> FALSE, max_records |-> DEFAULT_MAX_RECORDS]
    /\ last_run_date = None
    /\ shard_index = 0
    /\ records_in_current_shard = 0
    /\ writer = None
    /\ processed_count = 0
    /\ query = make_query(BASE_QUERY, None)
    /\ start_record = 1
    /\ gen_pc = "ended"
    /\ buffer = <<>>
    /\ runs = 0
    /\ modifications = 0
    /\ requests = <<>>
    /\ yielded = <<>>
    /\ written = <<>>
    /\ outcomes = <<>>
    /\ run_start = [checkpoint |-> None, clock |-> 1, files |-> <<>>]
    /\ saves = 0
    /\ network = <<>>
    /\ response = NoFetch
    /\ reported = None
    /\ reads = 0

\* One attempt of _SESSION.get(...): the response is returned unless the
\* Retry object counts the attempt; then the GET is sent again, or, with
\* the retries exhausted, the exception is raised.
session_attempt(outcome) ==
    /\ pc = "get"
    /\ attempts' = Append(attempts, outcome)
    /\ IF ~counts_against_retries(retries, outcome)
       THEN /\ get_result' = Some(outcome)
            /\ pc' = "got"
            /\ UNCHANGED retries
       ELSE /\ retries' = retries - 1
            /\ IF is_exhausted(retries - 1)
               THEN /\ get_result' = Some(Exhausted(outcome))
                    /\ pc' = "got"
               ELSE UNCHANGED <<get_result, pc>>
    /\ UNCHANGED <<config, server, clock, checkpoint, files, mainVars,
                   genVars, runs, modifications, histVars, scrubVars,
                   caller, caller_end>>

\* response.raise_for_status() and the except clauses of get_records
get_records_handles ==
    /\ pc = "got"
    /\ caller = "get_records"
    /\ caller_end' = Some(get_records_end(exception_of(get_result[1])))
    /\ pc' = "handled"
    /\ UNCHANGED <<config, server, clock, checkpoint, files, mainVars,
                   genVars, runs, modifications, histVars, scrubVars,
                   caller, retries, attempts, get_result>>

\* response.raise_for_status() and the except clauses of get_full_text
get_full_text_handles ==
    /\ pc = "got"
    /\ caller = "get_full_text"
    /\ caller_end' = Some(get_full_text_end(exception_of(get_result[1])))
    /\ pc' = "handled"
    /\ UNCHANGED <<config, server, clock, checkpoint, files, mainVars,
                   genVars, runs, modifications, histVars, scrubVars,
                   caller, retries, attempts, get_result>>

NextSession ==
    \/ \E outcome \in AttemptOutcomes : session_attempt(outcome)
    \/ get_records_handles
    \/ get_full_text_handles

SpecSession == InitSession /\ [][NextSession]_vars

\* --------------------------------------------------------------- resuming
\* Runs of main one after the other, none with --reset, against a server
\* that keeps its records as they are, with every page request answered and
\* every content GET answered with a text: the only way a run ends before
\* the empty page is the max-records cap.
NextResume ==
    \/ \E max_records \in MaxRecordsArgs : main_start(FALSE, max_records)
    \/ get_records_yield
    \/ get_records_request("ok")
    \/ \E resp \in {FetchOk(NameText), NoFetch} : main_loop_body(resp)
    \/ main_finish
    \/ main_save

SpecResume == Init /\ [][NextResume]_vars

\* ------------------------------------------------------------- properties
\* How get_records ended in the current run: "none" while it has not (it
\* also stays so when the main loop leaves it at the cap).
gen_end ==
    IF outcomes = <<>> \/ outcomes[Len(outcomes)] = "ok" THEN "none"
    ELSE outcomes[Len(outcomes)]

\* A run has ended and no other one has started.
RunEnded == pc = "idle" /\ runs >= 1

\* The run had a prior checkpoint to read: the file was there and --reset
\* did not remove it.
HadCheckpoint == run_start.checkpoint # None /\ ~args.reset

\* C1: a run in which get_records stops on a transport failure before any
\* document is written leaves the checkpoint as it was at the start of the
\* run, in the incremental and in the full-backlog window.
C1_FailedRunKeepsCheckpoint ==
    (RunEnded /\ gen_end = "RequestException" /\ written = <<>>)
        => checkpoint = run_start.checkpoint

\* The case of C1 in the full-backlog window: no checkpoint at the start,
\* first request failed, nothing written, and a checkpoint is there.
C1_FailedBacklogRunSaved ==
    /\ RunEnded /\ outcomes = <<"RequestException">> /\ written = <<>>
    /\ run_start.checkpoint = None
    /\ checkpoint # None

\* C2: when a run ends (sequence exhausted or cap reached), the checkpoint
\* is written exactly if the run wrote a document, or it wrote none and had
\* no prior checkpoint; an incremental run that wrote none leaves the
\* checkpoint as it was.
C2_CheckpointWrittenIff ==
    (RunEnded /\ gen_end \in {"none", "empty"})
        => /\ saves <= 1
           /\ saves = 1 <=> (Len(written) >= 1 \/ ~HadCheckpoint)
           /\ (HadCheckpoint /\ written = <<>>)
                  => checkpoint = run_start.checkpoint

\* An incremental run that exhausted the sequence without a document and
\* left the checkpoint alone.
C2_Witness ==
    /\ RunEnded /\ gen_end = "empty"
    /\ HadCheckpoint /\ written = <<>>
    /\ saves = 0 /\ checkpoint = run_start.checkpoint

\* C3: the timestamp a run stores in the checkpoint is the wall clock at
\* the start of that run.
C3_CheckpointIsRunStart ==
    (RunEnded /\ saves >= 1) => checkpoint = Some(isoformat(run_start.clock))

\* A run that saved a checkpoint later than the clock at its start.
C3_SavedLaterThanStart ==
    RunEnded /\ saves >= 1 /\ InstantOf(checkpoint[1], 0) > run_start.clock

\* The shard indices in use, and the records of shards 0..k one after the
\* other.
ShardIndices(fs) == {shard_file_index(n) : n \in DOMAIN fs}

RECURSIVE ShardConcat(_, _)
ShardConcat(fs, k) ==
    IF k < 0 THEN <<>>
    ELSE ShardConcat(fs, k - 1) \o fs[shard_file_name(k)]

CeilDiv(n, m) == (n + m - 1) \div m

\* The run found shards at its start, the highest-indexed one at capacity.
TopShardFullAtStart ==
    /\ runs >= 1
    /\ DOMAIN run_start.files # {}
    /\ Len(run_start.files[shard_file_name(SetMax(ShardIndices(run_start.files)))])
           >= RECORDS_PER_SHARD

\* C4: no shard file ever holds more than RECORDS_PER_SHARD records; and a
\* run that found the highest-indexed shard at capacity leaves that shard
\* as it was and opens the shard after it, which holds nothing but the
\* first documents of this run.
C4_ShardWithinCapacity ==
    /\ \A n \in DOMAIN files : Len(files[n]) <= RECORDS_PER_SHARD
    /\ TopShardFullAtStart =>
           LET top == SetMax(ShardIndices(run_start.files))
               old == shard_file_name(top)
               new == shard_file_name(top + 1)
           IN  /\ files[old] = run_start.files[old]
               /\ new \in DOMAIN files
               /\ new \notin DOMAIN run_start.files
               /\ files[new] = SubSeq(written, 1,
                                      Min(Len(written), RECORDS_PER_SHARD))

\* A later run found shard 0 at capacity and wrote a document.
C4_Witness ==
    /\ RunEnded /\ runs >= 2 /\ TopShardFullAtStart
    /\ Len(written) >= 1
    /\ Len(files[shard_file_name(0)]) = RECORDS_PER_SHARD

\* C5: a single run from an empty data directory that writes N documents
\* with capacity M leaves exactly ceil(N / M) shard files, each with at
\* most M records, the last one with N mod M records (M if that is 0).
C5_ShardCount ==
    (RunEnded /\ runs = 1)
        => LET N == Len(written)
               M == RECORDS_PER_SHARD
               last == shard_file_name(SetMax(ShardIndices(files)))
           IN  /\ Cardinality(DOMAIN files) = CeilDiv(N, M)
               /\ \A n \in DOMAIN files : Len(files[n]) <= M
               /\ N > 0 => Len(files[last]) = IF N % M = 0 THEN M ELSE N % M

\* A first run that wrote nothing and left a shard file all the same.
C5_EmptyShardLeft ==
    /\ RunEnded /\ runs = 1 /\ written = <<>>
    /\ Cardinality(DOMAIN files) = 1

\* C6: in a run from an empty data directory the shard files, one after
\* the other by index, hold the extracted documents in the order their
\* records were yielded (the server's order), and shard k holds the
\* documents k*M+1 .. (k+1)*M of them.
C6_ShardsAreSlices ==
    (runs = 1)
        => LET M == RECORDS_PER_SHARD
               top == SetMax(ShardIndices(files))
               all == ShardConcat(files, top)
           IN  /\ ShardIndices(files) = 0..top
               /\ all = written
               /\ \A i, j \in DOMAIN all :
                      i < j => all[i].URL[1] < all[j].URL[1]
               /\ \A k \in 0..top :
                      files[shard_file_name(k)]
                          = SubSeq(written, k * M + 1,
                                   Min((k + 1) * M, Len(written)))

\* Pages [A,B], [C], [] with capacity 2: shard 0 holds A and B, shard 1
\* holds C.
C6_Witness ==
    /\ RunEnded /\ runs = 1 /\ gen_end = "empty"
    /\ PAGE_SIZE = 2 /\ RECORDS_PER_SHARD = 2
    /\ Len(requests) = 3 /\ Len(written) = 3
    /\ files[shard_file_name(0)] = SubSeq(written, 1, 2)
    /\ files[shard_file_name(1)] = SubSeq(written, 3, 3)

\* The start records of n requests, one page after the other.
PageStarts(n) == [k \in 1..n |-> 1 + (k - 1) * PAGE_SIZE]

\* C7: without a failure get_records yields the N records the query
\* selects, each once and in the server's order, asking for the pages one
\* after the other; it ends on an empty page only, which is the last thing
\* it asks for.
C7_PaginationYieldsAll ==
    /\ \A k \in DOMAIN outcomes :
           outcomes[k] = "empty" => k = Len(outcomes) /\ gen_pc = "ended"
    /\ (pc = "finish" /\ gen_end = "empty")
           => LET all == Matching(server, query)
              IN  /\ yielded = all
                  /\ requests = PageStarts(CeilDiv(Len(all), PAGE_SIZE) + 1)
                  /\ \A k \in 1..(Len(requests) - 1) :
                         SearchRetrieve(server, query, requests[k], PAGE_SIZE)
                             # <<>>
                  /\ SearchRetrieve(server, query, requests[Len(requests)],
                                    PAGE_SIZE) = <<>>

\* Three records in pages of two: a full page, a partial one and the empty
\* page that ends the sequence.
C7_Witness ==
    /\ pc = "finish" /\ gen_end = "empty"
    /\ PAGE_SIZE = 2 /\ Len(yielded) = 3
    /\ requests = <<1, 3, 5>>

\* The documents of this run in the shard files: what each file holds
\* beyond what it held when the run started, by shard index.
RECURSIVE NewInShards(_)
NewInShards(k) ==
    IF k < 0 THEN <<>>
    ELSE LET n == shard_file_name(k)
             old == IF n \in DOMAIN run_start.files
                    THEN Len(run_start.files[n]) ELSE 0
         IN  NewInShards(k - 1)
             \o (IF n \in DOMAIN files
                 THEN SubSeq(files[n], old + 1, Len(files[n])) ELSE <<>>)

\* C8: when the request for page k fails, get_records ends there: the
\* failed request is the last of the run, the records of pages 1..k-1 have
\* all been yielded, and the documents written before the failure are in
\* the shards when the run has ended.
C8_FailureEndsSequence ==
    /\ \A k \in DOMAIN outcomes :
           outcomes[k] \in {"RequestException", "Exception"}
               => k = Len(outcomes) /\ gen_pc = "ended"
    /\ gen_end \in {"RequestException", "Exception"}
           => /\ pc \in {"finish", "idle"}
              /\ requests = PageStarts(Len(requests))
              /\ pc = "finish"
                     => LET all == Matching(server, query)
                            before == (Len(requests) - 1) * PAGE_SIZE
                        IN  yielded = SubSeq(all, 1, Min(before, Len(all)))
              /\ NewInShards(SetMax(ShardIndices(files))) = written

\* The request for the second page failed after a document of the first
\* page was written, and the run has ended with the document in its shard.
C8_Witness ==
    /\ RunEnded /\ outcomes = <<"ok", "RequestException">>
    /\ Len(written) >= 1
    /\ \E n \in DOMAIN files : \E i \in DOMAIN files[n] : files[n][i] = written[1]

\* C9: a run writes at most max_records documents, whatever max_records
\* >= 0 is; only written documents count, and once the count has reached
\* max_records nothing more is pulled from get_records.
C9_AtMostMaxRecords ==
    /\ runs >= 1 => Len(written) <= args.max_records
    /\ processed_count = Len(written)
    /\ (runs >= 1 /\ Len(written) >= args.max_records)
           => pc \in {"finish", "idle"}

\* A run with --max-records 0 that wrote a document.
C9_WroteWithCapZero ==
    runs >= 1 /\ args.max_records = 0 /\ Len(written) = 1

\* The URL the priority xml-nl > xml > pdf > bare URL field selects, the
\* first entry winning within a tier; None when there is no entry of those
\* kinds and no bare URL.
FirstEntry(items, kind) ==
    items[SetMin({i \in DOMAIN items : items[i].manifestation = kind})]

HasEntry(items, kind) == \E i \in DOMAIN items : items[i].manifestation = kind

UrlByPriority(rec) ==
    LET items == item_urls_of(rec)
    IN  CASE HasEntry(items, "xml-nl") -> FirstEntry(items, "xml-nl").text
          [] HasEntry(items, "xml") -> FirstEntry(items, "xml").text
          [] HasEntry(items, "pdf") -> FirstEntry(items, "pdf").text
          [] OTHER -> rec.url

HasAnyUrl(rec) ==
    \/ rec.url # None
    \/ \E i \in DOMAIN item_urls_of(rec) : item_urls_of(rec)[i].text # None

\* C10: the URL of the document parse_record returns is the one the
\* priority xml-nl > xml > pdf > bare URL field selects (with an xml-nl and
\* an xml entry that of the first xml-nl entry), and a record with no URL
\* of any kind gives null.
C10_UrlByPriority ==
    pc \in {"parsed", "parsed_tuchtrecht"}
        => /\ parsed # None => Some(parsed[1].URL) = UrlByPriority(record[1])
           /\ ~HasAnyUrl(record[1]) => parsed = None

\* The Tuchtrecht parse_record was given an xml and an xml-nl entry, each
\* with its URL, and returned the document of the xml entry.
C10_TuchtrechtIgnoresXmlNl ==
    /\ pc = "parsed_tuchtrecht"
    /\ parsed # None
    /\ LET items == item_urls_of(record[1])
       IN  /\ HasEntry(items, "xml-nl") /\ HasEntry(items, "xml")
           /\ FirstEntry(items, "xml-nl").text # None
           /\ Some(parsed[1].URL) = FirstEntry(items, "xml").text

\* The kinds of manifestation whose URL is that of an XML document.
XmlKinds == {"xml-nl", "xml"}

\* C11: for a record whose selected URL is not of an XML kind (a pdf
\* manifestation or the bare URL field), parse_record returns a document
\* with that URL whose Content is the fixed placeholder, and issues no GET;
\* whatever GET parse_record issues is for the selected URL, which is then
\* that of an xml-nl or xml manifestation.
C11_PlaceholderWithoutFetch ==
    pc = "parsed"
        => LET target_url == target_url_of(record[1])
           IN  /\ (target_url # None /\ target_url[1][2] \notin XmlKinds)
                      => /\ parsed # None
                         /\ parsed[1].Content = PLACEHOLDER
                         /\ parsed[1].URL = target_url[1]
                         /\ network = <<>>
               /\ \A i \in DOMAIN network :
                      /\ network[i].op = "content"
                      /\ target_url # None
                      /\ network[i].arg = target_url[1]
                      /\ target_url[1][2] \in XmlKinds

\* parse_record was given a record with a pdf entry and a bare URL but no
\* XML entry with a URL, and returned the placeholder without any GET.
C11_Witness ==
    /\ pc = "parsed"
    /\ parsed # None
    /\ parsed[1].Content = PLACEHOLDER
    /\ parsed[1].URL[2] = "pdf"
    /\ record[1].url # None
    /\ network = <<>>

\* The extraction of a record fails: it has no usable URL, or the GET of
\* its content fails, gives a document that is not XML, raises any other
\* exception, or gives a document with no text.
ExtractionFails(rec, resp) ==
    \/ target_url_of(rec) = None
    \/ /\ fetches_content(rec)
       /\ resp.status # "ok" \/ resp.text = <<>>

\* C12: when the extraction of the record in hand fails, the body of the
\* loop leaves parsed null, writes nothing, leaves the files, the open
\* shard, its index and fill and the processed counter as they were, and
\* goes back to the head of the loop with the generator untouched.
C12_FailureSkipsRecord ==
    [][(pc = "body" /\ pc' # "body" /\ ExtractionFails(record[1], response'))
          => /\ parsed' = None
             /\ pc' = "loop"
             /\ UNCHANGED <<files, writer, shard_index,
                            records_in_current_shard, processed_count,
                            written, checkpoint, genVars>>]_vars

\* The first record of the run had no usable URL, the second one's content
\* fetch failed, and the third was written, as the only document of the run.
C12_Witness ==
    /\ Len(yielded) = 3
    /\ target_url_of(yielded[1]) = None
    /\ fetches_content(yielded[2])
    /\ Len(written) = 1
    /\ Some(written[1].URL) = target_url_of(yielded[3])
    /\ processed_count = 1

StartsWith(t, prefix) ==
    Len(t) >= Len(prefix) /\ SubSeq(t, 1, Len(prefix)) = prefix

\* C13: scrub_title_names, scrub_party_names and scrub_courtesy_names are
\* each idempotent: called with its own output, the function returns it
\* unchanged, also when the keyword is followed by more words than one
\* match takes.
C13_ScrubIdempotent ==
    Len(applied) = 2 => applied[2].output = applied[2].input

\* scrub_title_names was called with a title and four capitalised words,
\* and, called again with what it returned, returned a shorter text.
C13_SecondPassRewrites ==
    /\ Len(applied) = 2
    /\ applied[1].rule = "title"
    /\ applied[1].input
           = <<"m","r",".">>
                 \o JoinWords(<<Capitalised, Capitalised, Capitalised,
                                Capitalised>>)
    /\ applied[1].output = <<"m","r","."," ">> \o NAAM \o <<" ">> \o Capitalised
    /\ applied[2].output = <<"m","r","."," ">> \o NAAM

\* C14: in rules 1-3 the name is matched case-sensitively and the keyword
\* is not: a text whose keyword is followed by a word that starts with a
\* lowercase letter is returned unchanged, and one whose keyword, in either
\* letter case, is followed by a capitalised word is returned with the
\* keyword and the placeholder at its start.
C14_NameCaseSensitive ==
    applied # <<>>
        => \A keyword \in KeywordsOf(applied[1].rule) :
               /\ StartsWith(applied[1].input,
                             keyword \o <<" ">> \o Uncapitalised)
                      => applied[1].output = applied[1].input
               /\ StartsWith(applied[1].input,
                             keyword \o <<" ">> \o Capitalised)
                      => StartsWith(applied[1].output,
                                    keyword \o <<" ">> \o NAAM)

\* scrub_title_names was called with a title and a word in lowercase, and
\* returned the title and the placeholder.
C14_LowercaseNameRewritten ==
    /\ applied # <<>>
    /\ applied[1].rule = "title"
    /\ applied[1].input = <<"m","r","."," ">> \o Uncapitalised
    /\ applied[1].output = <<"m","r","."," ">> \o NAAM

\* C15: a GET is sent again only after a response with one of the statuses
\* 429, 500, 502, 503 and 504, and never after a response with another one;
\* it is sent at most 5 times; and a GET that failed reaches its caller as
\* a failure the caller branches on: get_records ends the sequence and
\* get_full_text returns None.
C15_BoundedRetries ==
    /\ \A i \in 1..(Len(attempts) - 1) :
           attempts[i].kind = "response"
               => attempts[i].status \in {429, 500, 502, 503, 504}
    /\ Len(attempts) <= 5
    /\ (pc = "handled" /\ exception_of(get_result[1]) # "none")
           => caller_end = Some(IF caller = "get_records" THEN "break"
                                ELSE "None")

\* The server answered 503 to each of six attempts of one GET, and then
\* the GET raised RetryError.
C15_SixAttempts ==
    /\ Len(attempts) = 6
    /\ \A i \in DOMAIN attempts : attempts[i] = Response(503, FALSE)
    /\ get_result # None
    /\ get_result[1].kind = "RetryError"

\* C16: of a document that is written, the URL and the Source, in the
\* variable parsed, in the line appended to the open shard and in the
\* history of documents written, are those parse_record returned, only
\* the Content having gone through scrub_text; and the Source is the
\* literal "Verdragenbank" whatever the record.
C16_ScrubChangesOnlyContent ==
    [][(pc = "body" /\ pc' # "body" /\ parsed' # None)
          => LET result == parse_record(record[1], response')
                 line == files'[writer[1]][Len(files[writer[1]]) + 1]
             IN  /\ result # None
                 /\ parsed'[1].URL = result[1].URL
                 /\ parsed'[1].Source = result[1].Source
                 /\ parsed'[1].Source = "Verdragenbank"
                 /\ DOMAIN parsed'[1] = {"URL", "Content", "Source"}
                 /\ line = parsed'[1]
                 /\ written' = Append(written, parsed'[1])]_vars

\* Two documents were written, the first one with a Content that the
\* redaction changed, the second one with the placeholder, both with the
\* URL of their record and the same Source.
C16_Witness ==
    /\ Len(written) = 2
    /\ written[1].Content = <<"m","r","."," ">> \o NAAM
    /\ written[1].URL = Url(yielded[1].id, "xml")
    /\ written[2].Content = PLACEHOLDER
    /\ written[2].URL = Url(yielded[2].id, "pdf")
    /\ written[1].Source = written[2].Source

\* C17: a run that has started reaches the end of main and reports there
\* the number of documents it has written, however the sequence of its
\* records ended.
C17_RunReportsCount ==
    (pc # "idle") ~> (pc = "idle" /\ reported = Some(Len(written)))

\* A run has ended on a transport failure after writing two documents,
\* and has reported 2.
C17_Witness ==
    /\ pc = "idle"
    /\ gen_end = "RequestException"
    /\ Len(written) = 2
    /\ reported = Some(2)

\* The GETs of a run in which the pages from the k-th on of those requested
\* and the records from the i-th on of those handled are still to come,
\* given the records the query selects: the content GET of a record comes
\* before the request of any page after its own, and after the GETs of the
\* records before it.
RECURSIVE NetworkOf(_, _, _, _)
NetworkOf(all, handled, k, i) ==
    IF i <= handled /\ i <= (k - 1) * PAGE_SIZE
    THEN ContentGets(content_fetch(all[i])) \o NetworkOf(all, handled, k, i + 1)
    ELSE IF k <= Len(requests)
    THEN <<PageGet(requests[k])>> \o NetworkOf(all, handled, k + 1, i)
    ELSE <<>>

\* C18: the GETs of a run are made one after the other and on demand: page
\* k + 1 is requested only after every record of page k has gone through
\* the body of the loop (its content GET, if it has one, made), and the
\* content GETs are made in the order of the records.
C18_NetworkOrdered ==
    pc # "idle"
        => network = NetworkOf(Matching(server, query),
                               Len(yielded) - (IF pc = "body" THEN 1 ELSE 0),
                               1, 1)

\* Three XML records in pages of two: the first page, the content of the
\* first and of the second record, the second page, the content of the
\* third record, and the empty third page.
C18_Witness ==
    /\ pc = "finish"
    /\ PAGE_SIZE = 2
    /\ network = <<PageGet(1), [op |-> "content", arg |-> Url(1, "xml")],
                   [op |-> "content", arg |-> Url(2, "xml")],
                   PageGet(3), [op |-> "content", arg |-> Url(3, "xml")],
                   PageGet(5)>>

IsPrefix(s, t) == Len(s) <= Len(t) /\ SubSeq(t, 1, Len(s)) = s

\* C19: shards are append-only over any sequence of runs. No step takes a
\* shard file away or changes the records it holds, a file only grows at
\* its end; a step writes only to a shard no other shard has a higher
\* index than; a shard file that is created has the index after the
\* highest one there is (0 in an empty directory); and the shard a run
\* opens after another one has the next index.
C19_ShardsAppendOnly ==
    [][/\ \A n \in DOMAIN files :
              n \in DOMAIN files' /\ IsPrefix(files[n], files'[n])
       /\ \A n \in DOMAIN files' :
              (n \notin DOMAIN files \/ files'[n] # files[n])
                  => \A m \in DOMAIN files :
                         shard_file_index(m) <= shard_file_index(n)
       /\ \A n \in DOMAIN files' \ DOMAIN files :
              /\ files'[n] = <<>>
              /\ shard_file_index(n)
                     = IF DOMAIN files = {} THEN 0
                       ELSE SetMax(ShardIndices(files)) + 1
       /\ (writer # None /\ writer' # None /\ writer' # writer)
              => shard_file_index(writer'[1])
                     = shard_file_index(writer[1]) + 1]_vars

\* A later run found one record in shard 0, added a record to it and went
\* on to shard 1.
C19_Witness ==
    /\ runs >= 2
    /\ DOMAIN run_start.files = {shard_file_name(0)}
    /\ Len(run_start.files[shard_file_name(0)]) = 1
    /\ Len(files[shard_file_name(0)]) = 2
    /\ files[shard_file_name(0)][1] = run_start.files[shard_file_name(0)][1]
    /\ shard_file_name(1) \in DOMAIN files
    /\ writer = Some(shard_file_name(1))

\* C20: the checkpoint is read at the start of a run only, and at most
\* once; while the records are paginated and processed it is neither
\* written nor removed; it is written at most once in a run, and then
\* after the loop, with the shard closed; so that in a run without --reset
\* it is what it was at the start until it is saved.
C20_CheckpointCommit ==
    [][/\ reads' # reads => (pc = "idle" /\ pc' = "loop" /\ reads' <= 1)
       /\ pc \in {"loop", "body"}
              => (checkpoint' = checkpoint /\ saves' = saves)
       /\ saves' # saves
              => \/ pc = "idle" /\ saves' = 0
                 \/ /\ pc = "finish" /\ pc' = "idle"
                    /\ writer = None /\ record = None
                    /\ saves = 0 /\ saves' = 1
                    /\ checkpoint' = Some(isoformat(clock))
       /\ checkpoint' # checkpoint
              => \/ pc = "idle" /\ args'.reset /\ checkpoint' = None
                 \/ saves' = saves + 1
       /\ (pc' # "idle" /\ ~args'.reset)
              => (checkpoint' = run_start'.checkpoint /\ reads' = 1)]_vars

\* A run without --reset that read a checkpoint has saved a later one, at
\* its end, after three requests and two documents.
C20_Witness ==
    /\ RunEnded /\ HadCheckpoint
    /\ reads = 1 /\ saves = 1
    /\ InstantOf(checkpoint[1], 0) > InstantOf(run_start.checkpoint[1], 0)
    /\ Len(written) >= 1
    /\ Len(requests) >= 2

\* The page requests among the GETs of the run.
PageGets == SelectSeq(network, LAMBDA get : get.op = "page")

\* The query of the run as the window sets it: the base filter, and with a
\* checkpoint found at the start of a run without --reset, the since clause
\* with the text of that checkpoint.
WindowQuery ==
    [base |-> BASE_QUERY,
     since |-> IF args.reset THEN None ELSE run_start.checkpoint]

\* C21: the query of a run is set when the run starts and is the same in
\* every page request of the run: the base filter alone with no checkpoint
\* or with --reset, the base filter with dt.modified>= the checkpoint
\* otherwise, the checkpoint being the text the last commit stored (the
\* file changes by a commit and by the removal of --reset only); between
\* page requests only startRecord changes, from 1 on in steps of the page
\* size.
C21_QueryFixed ==
    /\ [](/\ pc # "idle" => query = WindowQuery
          /\ \A k \in DOMAIN PageGets :
                 /\ PageGets[k].query = WindowQuery
                 /\ PageGets[k].arg = 1 + (k - 1) * PAGE_SIZE)
    /\ [][/\ pc # "idle" => query' = query
          /\ checkpoint' # checkpoint
                 => \/ /\ pc = "idle" /\ args'.reset
                       /\ checkpoint' = None
                    \/ /\ saves' = saves + 1
                       /\ checkpoint' = Some(isoformat(clock))
          /\ (pc = "idle" /\ pc' # "idle")
                 => run_start'.checkpoint = checkpoint]_vars

\* A run without --reset that found the checkpoint of an earlier run and
\* has requested two pages with its since clause, the first of which held
\* a record.
C21_Witness ==
    /\ pc # "idle" /\ ~args.reset
    /\ run_start.checkpoint # None
    /\ query.since = run_start.checkpoint
    /\ Len(PageGets) >= 2
    /\ PageGets[2].query.since = run_start.checkpoint
    /\ Len(yielded) >= 1
\* parse_record makes a document of the record when its content GET, if it
\* makes one, is answered with a text.
Extracts(rec) ==
    parse_record(rec, IF fetches_content(rec) THEN FetchOk(NameText)
                      ELSE NoFetch) # None

\* Some shard holds the document of the record.
InShards(rec) ==
    \E name \in DOMAIN files : \E j \in DOMAIN files[name] :
        Some(files[name][j].URL) = target_url_of(rec)

\* The record is behind the checkpoint: no shard holds its document, and
\* the since clause of the checkpoint does not select it.
LeftBehind(rec) ==
    /\ Extracts(rec) /\ ~InShards(rec)
    /\ checkpoint # None
    /\ rec.modified < InstantOf(checkpoint[1], 0)

\* C22: resuming loses no document: over runs without --reset and without
\* transport failures against an unchanging server, a record that extracts
\* to a document and is in no shard yet is still within reach of the runs
\* to come, that is, the checkpoint does not exclude it from their query.
C22_ResumeLosesNothing ==
    \A i \in DOMAIN server : ~LeftBehind(server[i])

\* A run stopped at the max-records cap, a later run without --reset ran
\* to the empty page, and a record the first run left unread is in no
\* shard and behind the checkpoint.
C22_UnreadRecordLost ==
    /\ RunEnded /\ runs >= 2
    /\ HadCheckpoint /\ gen_end = "empty"
    /\ modifications = 0
    /\ \E i \in DOMAIN server : LeftBehind(server[i])

\* A record behind the checkpoint stays behind it: no later run of these
\* retrieves it.
C22_LeftBehindForGood ==
    [][\A i \in DOMAIN server :
           LeftBehind(server[i]) => LeftBehind(server[i])']_vars
====
